---- MODULE Spec2Model ----
(***************************************************************************)
(* The user_profile_system pipeline: a SequentialAgent that runs the       *)
(* data_fetcher agent (structured output, output_schema = UserProfile,     *)
(* output_key = "fetched_profile") and then the presenter agent, both on   *)
(* the session state of the session the pipeline was invoked on.           *)
(*                                                                         *)
(* LlmAgent and SequentialAgent are the classes of the google.adk library  *)
(* the source imports; the model gives them the library's behaviour: a     *)
(* SequentialAgent runs its sub_agents in list order, each to its end, and *)
(* an exception of a sub-agent leaves the run; an LlmAgent with an         *)
(* output_key stores its final response under that key of the session      *)
(* state, validated against output_schema and dumped when it has one.      *)
(*                                                                         *)
(* The two natural-language instructions are the program of the two        *)
(* agents: the generation step of an agent either answers as its           *)
(* instruction says, or answers with text that deviates from the output    *)
(* schema, or answers with no content, or raises.  Python values are       *)
(* tagged with their runtime type: <<"str", s>>, <<"num", n>>,             *)
(* <<"list", q>>.  A dict is a function from its keys.                     *)
(***************************************************************************)
EXTENDS Integers, Sequences, FiniteSets, TLC

VARIABLES
    state,      \* session -> the session state (a dict: key -> value)
    turn,       \* session -> number of pipeline invocations so far
    query,      \* session -> the user message of the current run
    run,        \* session -> "NotStarted" | "active" | "completed" | "aborted"
    status,     \* session -> sub-agent index -> "idle" | "running" | "done" | "failed"
    error,      \* session -> exception that left the run: "none" | "ValidationError" | "GenerationError"
    gen,        \* session -> what the data_fetcher's generation step returned in this run
    view,       \* session -> the part of the session state the presenter was given
    response,   \* session -> the final text forwarded to the caller in this run
    writes,     \* session -> the keys written to the session state in this run, in order
    starts      \* session -> sub-agent index -> how often it was started in this run

vars == <<state, turn, query, run, status, error, gen, view, response, writes, starts>>

(***************************************************************************)
(* Bounds of the model.                                                    *)
(***************************************************************************)
MaxTurns == 2

Sessions == {"s1", "s2"}

\* The user messages the caller sends: an id of the table, a name of the
\* table, and an id that is not in the table.
Queries == {"U003", "Alice Johnson", "U999"}

(***************************************************************************)
(* Python values.                                                          *)
(***************************************************************************)
JStr(s) == <<"str", s>>

JNum(n) == <<"num", n>>

JList(q) == <<"list", q>>

JStrs(q) == JList([i \in DOMAIN q |-> JStr(q[i])])

None == "<None>"

EmptyDict == [k \in {} |-> None]

Restrict(d, keys) == [k \in (DOMAIN d) \cap keys |-> d[k]]

With(d, key, v) == [k \in (DOMAIN d) \cup {key} |-> IF k = key THEN v ELSE d[k]]

(***************************************************************************)
(* schema.py: class UserProfile(BaseModel).                                *)
(***************************************************************************)
StrFields ==
    {"user_id", "name", "email", "role", "department", "status",
     "joined_date", "last_login"}

ListFields == {"skills", "projects"}

UserProfileFields == StrFields \cup ListFields

IsStr(j) == j[1] = "str"

IsListOfStr(j) == j[1] = "list" /\ \A i \in DOMAIN j[2] : IsStr(j[2][i])

\* One field of a candidate validates: str fields take a string, List[str]
\* fields take a list whose items are all strings.
FieldValid(f, j) == IF f \in ListFields THEN IsListOfStr(j) ELSE IsStr(j)

\* UserProfile.model_validate_json(c) does not raise: every declared field
\* is present (all are required) and validates.  Undeclared keys are ignored.
UserProfileValid(c) ==
    /\ UserProfileFields \subseteq DOMAIN c
    /\ \A f \in UserProfileFields : FieldValid(f, c[f])

\* .model_dump(): the dict of the declared fields only.
ModelDump(c) == Restrict(c, UserProfileFields)

(***************************************************************************)
(* data_fetcher.py: DATA_FETCHER_INSTRUCTION, the mock user database and   *)
(* the rule for a user that is not found.                                  *)
(***************************************************************************)
Profile(uid, name, email, role, dept, skills, projects, st, joined, last) ==
    [user_id |-> JStr(uid), name |-> JStr(name), email |-> JStr(email),
     role |-> JStr(role), department |-> JStr(dept), skills |-> JStrs(skills),
     projects |-> JStrs(projects), status |-> JStr(st),
     joined_date |-> JStr(joined), last_login |-> JStr(last)]

USER_DATABASE ==
    << Profile("U001", "Alice Johnson", "alice.johnson@techcorp.com",
               "Senior Data Scientist", "AI Research",
               <<"Python", "TensorFlow", "NLP", "Deep Learning">>,
               <<"Chatbot Enhancement", "Sentiment Analysis">>,
               "active", "2022-03-15", "2025-10-02T09:15:00Z"),
       Profile("U002", "Bob Smith", "bob.smith@techcorp.com",
               "Product Manager", "Product",
               <<"Agile", "Product Strategy", "User Research", "Analytics">>,
               <<"Mobile App Redesign", "Customer Portal">>,
               "active", "2021-06-20", "2025-10-01T16:45:00Z"),
       Profile("U003", "Carol Martinez", "carol.martinez@techcorp.com",
               "DevOps Engineer", "Engineering",
               <<"Kubernetes", "Docker", "CI/CD", "AWS", "Terraform">>,
               <<"Infrastructure Automation", "Cloud Migration">>,
               "active", "2023-01-10", "2025-10-02T08:30:00Z"),
       Profile("U004", "David Chen", "david.chen@techcorp.com",
               "UX Designer", "Design",
               <<"Figma", "User Testing", "Wireframing", "Prototyping">>,
               <<"Design System", "Mobile App Redesign">>,
               "inactive", "2020-11-05", "2025-09-15T14:20:00Z") >>

\* "When given a user ID or name": the rows the query names.
Found(q) ==
    {i \in DOMAIN USER_DATABASE :
        USER_DATABASE[i].user_id = JStr(q) \/ USER_DATABASE[i].name = JStr(q)}

\* A sentinel that sets the identifier and nothing else.
UNKNOWN_PROFILE_BARE == [user_id |-> JStr("UNKNOWN")]

\* "If the user is not found, return a profile with user_id as "UNKNOWN" and
\* appropriate default values."
UNKNOWN_PROFILE ==
    Profile("UNKNOWN", "", "", "", "", <<>>, <<>>, "", "", "")

\* The JSON object the instruction tells the data fetcher to return.
DATA_FETCHER_INSTRUCTION(q) ==
    IF Found(q) = {}
    THEN UNKNOWN_PROFILE
    ELSE USER_DATABASE[CHOOSE i \in Found(q) : TRUE]

\* Final responses of the data fetcher's generation step that carry text:
\* the instructed object, the instructed object with an undeclared key, an
\* object that lacks a required field, one whose skills is a string, and one
\* whose skills holds a number.
FetcherResponses(q) ==
    LET p == DATA_FETCHER_INSTRUCTION(q) IN
    { p,
      With(p, "note", JStr("n/a")),
      Restrict(p, DOMAIN p \ {"email"}),
      With(p, "skills", JStr("Python")),
      With(p, "skills", JList(<<JStr("Python"), JNum(3)>>)) }

(***************************************************************************)
(* presenter.py: PRESENTER_INSTRUCTION.                                    *)
(***************************************************************************)
OUTPUT_KEY == "fetched_profile"

Texts(j) == [i \in DOMAIN j[2] |-> j[2][i][2]]

HOLDING_MESSAGE == <<"Please wait while the data is being fetched.">>

\* The example response format, filled in from the stored profile.
ResponseFormat(p) ==
    <<"Here's what I found about", p.name[2],
      "Profile Information:",
      "Name:", p.name[2], "Role:", p.role[2],
      "Department:", p.department[2], "Email:", p.email[2],
      "Skills:">> \o Texts(p.skills) \o
    <<"Current Projects:">> \o Texts(p.projects) \o
    <<"Account Details:",
      "Status:", p.status[2], "Joined:", p.joined_date[2],
      "Last Login:", p.last_login[2],
      "Is there anything else you'd like to know about this person?">>

\* A presenter that presents a profile whether or not one is stored.
PRESENTER_INSTRUCTION_FABRICATING(v) ==
    IF OUTPUT_KEY \in DOMAIN v
    THEN ResponseFormat(v[OUTPUT_KEY])
    ELSE ResponseFormat(USER_DATABASE[1])

\* "1. Check the session state for "fetched_profile"  2. If the data exists,
\* present it ...  3. If the data doesn't exist, politely ask the user to wait
\* while the data is being fetched".  v is the session state the agent sees.
PRESENTER_INSTRUCTION(v) ==
    IF OUTPUT_KEY \in DOMAIN v
    THEN ResponseFormat(v[OUTPUT_KEY])
    ELSE HOLDING_MESSAGE

(***************************************************************************)
(* The agents.                                                             *)
(***************************************************************************)
\* A data fetcher declared without its output_schema.
data_fetcher_agent_no_schema ==
    [name |-> "data_fetcher", output_schema |-> None, output_key |-> OUTPUT_KEY]

data_fetcher_agent ==
    [name |-> "data_fetcher", output_schema |-> "UserProfile",
     output_key |-> OUTPUT_KEY]

\* A presenter declared with an output_key of its own.
presenter_agent_with_output_key ==
    [name |-> "presenter", output_schema |-> None, output_key |-> "presentation"]

presenter_agent ==
    [name |-> "presenter", output_schema |-> None, output_key |-> None]

\* user_profile_system = SequentialAgent(sub_agents=[data_fetcher, presenter])
user_profile_system == <<data_fetcher_agent, presenter_agent>>

root_agent == user_profile_system

FETCHER == 1

PRESENTER == 2

(***************************************************************************)
(* What an agent's final response does to the session state.              *)
(***************************************************************************)
\* The agent's final response validates against its output_schema (an agent
\* without output_schema accepts any text).
Accepted(agent, content) ==
    agent.output_schema = None \/ UserProfileValid(content)

\* A save that stores the text first and validates afterwards.
StateDeltaSaveFirst(agent, content) ==
    IF agent.output_key = None
    THEN EmptyDict
    ELSE With(EmptyDict, agent.output_key,
              IF agent.output_schema # None /\ UserProfileValid(content)
              THEN ModelDump(content) ELSE content)

\* The state delta of the agent's final response: with an output_key, the
\* response is stored under it, after validation and dump when the agent has
\* an output_schema; a response that does not validate stores nothing.
StateDelta(agent, content) ==
    IF agent.output_key = None
    THEN EmptyDict
    ELSE IF agent.output_schema = None
    THEN With(EmptyDict, agent.output_key, content)
    ELSE IF UserProfileValid(content)
    THEN With(EmptyDict, agent.output_key, ModelDump(content))
    ELSE EmptyDict

\* A merge that keeps only the delta.
ApplyStateDeltaReplacing(st, delta) ==
    IF DOMAIN delta = {} THEN st ELSE delta

\* The session state after a delta is merged into it.
ApplyStateDelta(st, delta) ==
    [k \in (DOMAIN st) \cup (DOMAIN delta) |->
        IF k \in DOMAIN delta THEN delta[k] ELSE st[k]]

\* A state shared by every session (one module-level dict).
StateScopeGlobal(s) == Sessions

\* The sessions whose state a write of session s reaches: "fetched_profile"
\* is a plain key of the session's own state.
StateScope(s) == {s}

Commit(s, delta) ==
    [t \in Sessions |->
        IF t \in StateScope(s) THEN ApplyStateDelta(state[t], delta) ELSE state[t]]

Keys(delta) ==
    IF DOMAIN delta = {} THEN <<>> ELSE <<CHOOSE k \in DOMAIN delta : TRUE>>

(***************************************************************************)
(* The SequentialAgent: sub-agent i starts once every sub-agent before it  *)
(* has returned; an exception of a sub-agent leaves the run.               *)
(***************************************************************************)
\* Sub-agents started side by side.
CanStartParallel(s, i) ==
    run[s] = "active" /\ status[s][i] = "idle"

\* Sub-agents run in a loop: a sub-agent that has returned starts again.
CanStartLoop(s, i) ==
    /\ run[s] = "active"
    /\ status[s][i] \in {"idle", "done"}
    /\ \A j \in 1..(i - 1) : status[s][j] = "done"

CanStart(s, i) ==
    /\ run[s] = "active"
    /\ status[s][i] = "idle"
    /\ \A j \in 1..(i - 1) : status[s][j] = "done"

AfterReturn(s, i) ==
    IF \A j \in DOMAIN root_agent : j = i \/ status[s][j] = "done"
    THEN "completed" ELSE "active"

\* The state a session is created with: session s1 is created with a key of
\* the caller's, session s2 with none.
InitialState(s) ==
    IF s = "s1" THEN With(EmptyDict, "preferred_language", JStr("en")) ELSE EmptyDict

Init ==
    /\ state = [s \in Sessions |-> InitialState(s)]
    /\ turn = [s \in Sessions |-> 0]
    /\ query = [s \in Sessions |-> ""]
    /\ run = [s \in Sessions |-> "NotStarted"]
    /\ status = [s \in Sessions |-> [i \in DOMAIN root_agent |-> "idle"]]
    /\ error = [s \in Sessions |-> "none"]
    /\ gen = [s \in Sessions |-> <<"pending">>]
    /\ view = [s \in Sessions |-> EmptyDict]
    /\ response = [s \in Sessions |-> <<>>]
    /\ writes = [s \in Sessions |-> <<>>]
    /\ starts = [s \in Sessions |-> [i \in DOMAIN root_agent |-> 0]]

\* The caller invokes the pipeline on session s with message q.
Invoke(s, q) ==
    /\ run[s] # "active"
    /\ turn[s] < MaxTurns
    /\ turn' = [turn EXCEPT ![s] = @ + 1]
    /\ query' = [query EXCEPT ![s] = q]
    /\ run' = [run EXCEPT ![s] = "active"]
    /\ status' = [status EXCEPT ![s] = [i \in DOMAIN root_agent |-> "idle"]]
    /\ error' = [error EXCEPT ![s] = "none"]
    /\ gen' = [gen EXCEPT ![s] = <<"pending">>]
    /\ view' = [view EXCEPT ![s] = EmptyDict]
    /\ response' = [response EXCEPT ![s] = <<>>]
    /\ writes' = [writes EXCEPT ![s] = <<>>]
    /\ starts' = [starts EXCEPT ![s] = [i \in DOMAIN root_agent |-> 0]]
    /\ UNCHANGED state

\* The data fetcher starts: its request is the instruction and the message.
StartFetch(s) ==
    /\ CanStart(s, FETCHER)
    /\ status' = [status EXCEPT ![s][FETCHER] = "running"]
    /\ starts' = [starts EXCEPT ![s][FETCHER] = @ + 1]
    /\ UNCHANGED <<state, turn, query, run, error, gen, view, response, writes>>

\* The data fetcher's final response carries the text c.
FetchFinalResponse(s, c) ==
    LET agent == root_agent[FETCHER]
        delta == StateDelta(agent, c)
        ok == Accepted(agent, c)
    IN
    /\ status[s][FETCHER] = "running"
    /\ gen' = [gen EXCEPT ![s] = <<"text", c>>]
    /\ state' = Commit(s, delta)
    /\ writes' = [writes EXCEPT ![s] = @ \o Keys(delta)]
    /\ status' = [status EXCEPT ![s][FETCHER] = IF ok THEN "done" ELSE "failed"]
    /\ error' = [error EXCEPT ![s] = IF ok THEN @ ELSE "ValidationError"]
    /\ run' = [run EXCEPT ![s] = IF ok THEN AfterReturn(s, FETCHER) ELSE "aborted"]
    /\ UNCHANGED <<turn, query, view, response, starts>>

\* The data fetcher's final response has no content: nothing is saved.
FetchEmptyResponse(s) ==
    /\ status[s][FETCHER] = "running"
    /\ gen' = [gen EXCEPT ![s] = <<"empty">>]
    /\ status' = [status EXCEPT ![s][FETCHER] = "done"]
    /\ run' = [run EXCEPT ![s] = AfterReturn(s, FETCHER)]
    /\ UNCHANGED <<state, turn, query, error, view, response, writes, starts>>

\* The data fetcher's generation step raises.
FetchGenerationError(s) ==
    /\ status[s][FETCHER] = "running"
    /\ gen' = [gen EXCEPT ![s] = <<"error">>]
    /\ status' = [status EXCEPT ![s][FETCHER] = "failed"]
    /\ error' = [error EXCEPT ![s] = "GenerationError"]
    /\ run' = [run EXCEPT ![s] = "aborted"]
    /\ UNCHANGED <<state, turn, query, view, response, writes, starts>>

\* The presenter starts: it is given the session state as it is now.
StartPresent(s) ==
    /\ CanStart(s, PRESENTER)
    /\ status' = [status EXCEPT ![s][PRESENTER] = "running"]
    /\ starts' = [starts EXCEPT ![s][PRESENTER] = @ + 1]
    /\ view' = [view EXCEPT ![s] = Restrict(state[s], {OUTPUT_KEY})]
    /\ UNCHANGED <<state, turn, query, run, error, gen, response, writes>>

\* The presenter's final response: the text its instruction asks for.
PresentFinalResponse(s) ==
    LET agent == root_agent[PRESENTER]
        text == PRESENTER_INSTRUCTION(view[s])
        delta == StateDelta(agent, text)
    IN
    /\ status[s][PRESENTER] = "running"
    /\ response' = [response EXCEPT ![s] = text]
    /\ state' = Commit(s, delta)
    /\ writes' = [writes EXCEPT ![s] = @ \o Keys(delta)]
    /\ status' = [status EXCEPT ![s][PRESENTER] = "done"]
    /\ run' = [run EXCEPT ![s] = AfterReturn(s, PRESENTER)]
    /\ UNCHANGED <<turn, query, error, gen, view, starts>>

\* The presenter's generation step raises.
PresentGenerationError(s) ==
    /\ status[s][PRESENTER] = "running"
    /\ status' = [status EXCEPT ![s][PRESENTER] = "failed"]
    /\ error' = [error EXCEPT ![s] = "GenerationError"]
    /\ run' = [run EXCEPT ![s] = "aborted"]
    /\ UNCHANGED <<state, turn, query, gen, view, response, writes, starts>>

Next ==
    \E s \in Sessions :
        \/ \E q \in Queries : Invoke(s, q)
        \/ StartFetch(s)
        \/ \E c \in FetcherResponses(query[s]) : FetchFinalResponse(s, c)
        \/ FetchEmptyResponse(s)
        \/ FetchGenerationError(s)
        \/ StartPresent(s)
        \/ PresentFinalResponse(s)
        \/ PresentGenerationError(s)

Spec == Init /\ [][Next]_vars

(***************************************************************************)
(* The orchestrator's state machine, read off the run and its sub-agents.  *)
(***************************************************************************)
OrchState(r, st) ==
    IF r = "aborted" THEN "Aborted"
    ELSE IF r = "completed" THEN "Completed"
    ELSE IF st[PRESENTER] = "running" THEN "PresentRunning"
    ELSE IF st[FETCHER] = "running" THEN "FetchRunning"
    ELSE IF st[FETCHER] \in {"done", "failed"} THEN "FetchDone"
    ELSE "NotStarted"

Rank(o) ==
    CASE o = "NotStarted" -> 0
      [] o = "FetchRunning" -> 1
      [] o = "FetchDone" -> 2
      [] o = "PresentRunning" -> 3
      [] OTHER -> 4

\* The declared shape of a Profile: the ten fields, eight strings and two
\* sequences of strings.
WellShaped(p) ==
    /\ {"user_id", "name", "email", "role", "department", "skills",
        "projects", "status", "joined_date", "last_login"} \subseteq DOMAIN p
    /\ \A f \in {"user_id", "name", "email", "role", "department", "status",
                 "joined_date", "last_login"} : p[f][1] = "str"
    /\ \A f \in {"skills", "projects"} :
          p[f][1] = "list" /\ \A i \in DOMAIN p[f][2] : p[f][2][i][1] = "str"

Range(q) == {q[i] : i \in DOMAIN q}

\* The texts a profile carries, the identifier aside.
ProfileTexts(p) ==
    {p[f][2] : f \in {"name", "email", "role", "department", "status",
                      "joined_date", "last_login"}}
    \cup UNION {{p[f][2][i][2] : i \in DOMAIN p[f][2]} : f \in {"skills", "projects"}}

Labels ==
    {"Here's what I found about", "Profile Information:", "Name:", "Role:",
     "Department:", "Email:", "Skills:", "Current Projects:",
     "Account Details:", "Status:", "Joined:", "Last Login:",
     "Is there anything else you'd like to know about this person?"}

\* C1: in every run the presenter is started only once the data fetcher has
\* finished (returned or failed), and the two are never running together.
C1_PresentAfterFetch ==
    \A s \in Sessions :
        /\ status[s][PRESENTER] # "idle" => status[s][FETCHER] \in {"done", "failed"}
        /\ ~(status[s][FETCHER] = "running" /\ status[s][PRESENTER] = "running")

C1_Witness ==
    \E s \in Sessions :
        status[s][PRESENTER] = "running" /\ status[s][FETCHER] = "done"

\* C2: a final response of the data fetcher that fails schema validation
\* makes the stage fail with a validation error and writes nothing: the
\* session state after the step is the state before it, a value already
\* stored under fetched_profile included.
C2_MalformedNoWrite ==
    [][\A s \in Sessions :
          (/\ status[s][FETCHER] = "running"
           /\ gen'[s][1] = "text"
           /\ ~WellShaped(gen'[s][2]))
          => /\ status'[s][FETCHER] = "failed"
             /\ error'[s] = "ValidationError"
             /\ state'[s] = state[s]
             /\ writes'[s] = writes[s]]_vars

C2_Witness ==
    \E s \in Sessions :
        /\ error[s] = "ValidationError"
        /\ status[s][FETCHER] = "failed"
        /\ gen[s][1] = "text"
        /\ OUTPUT_KEY \in DOMAIN state[s]
        /\ state[s][OUTPUT_KEY] # ModelDump(gen[s][2])

\* C3: a data fetcher that fails schema validation does not abort the run
\* (the presenter still runs), while a data fetcher whose generation step
\* raises aborts the run before the presenter is started.
C3_MalformedOutputDoesNotAbort ==
    \A s \in Sessions :
        /\ error[s] = "ValidationError" => run[s] # "aborted"
        /\ (error[s] = "GenerationError" /\ status[s][FETCHER] = "failed")
              => (run[s] = "aborted" /\ status[s][PRESENTER] = "idle")

C5_PresenterWritesNothing ==
    /\ [](\A s \in Sessions :
            (gen[s][1] = "text" /\ status[s][FETCHER] = "done")
            => /\ \A f \in UserProfileFields :
                    state[s][OUTPUT_KEY][f] = gen[s][2][f]
               /\ status[s][PRESENTER] \in {"running", "done"}
                    => view[s][OUTPUT_KEY] = state[s][OUTPUT_KEY])
    /\ [][\A s \in Sessions :
             (turn'[s] = turn[s] /\ status'[s][PRESENTER] # status[s][PRESENTER])
             => state'[s] = state[s]]_vars

C5_Witness ==
    \E s \in Sessions :
        /\ status[s][PRESENTER] = "done"
        /\ gen[s][1] = "text"
        /\ view[s][OUTPUT_KEY] = state[s][OUTPUT_KEY]

C8_SessionsIndependent ==
    [][\A s \in Sessions :
          /\ state'[s] # state[s]
               => (status[s][FETCHER] = "running" /\ status'[s][FETCHER] = "done")
          /\ (status[s][PRESENTER] = "idle" /\ status'[s][PRESENTER] = "running")
               => view'[s] = Restrict(state[s], {OUTPUT_KEY})]_vars

C8_Witness ==
    \E s, t \in Sessions :
        /\ s # t
        /\ run[s] = "active"
        /\ status[s][FETCHER] = "done"
        /\ OUTPUT_KEY \in DOMAIN state[s]
        /\ status[t][PRESENTER] = "running"
        /\ OUTPUT_KEY \notin DOMAIN state[t]
        /\ OUTPUT_KEY \notin DOMAIN view[t]

\* C9: within one run the orchestrator only moves forward through
\* NotStarted, FetchRunning, FetchDone, PresentRunning and its final state,
\* a data fetcher that has stopped running is not started again, and each
\* stage is started at most once.
C9_NoReentry ==
    /\ [](\A s \in Sessions : \A i \in DOMAIN root_agent : starts[s][i] <= 1)
    /\ [][\A s \in Sessions :
             turn'[s] = turn[s]
             => /\ Rank(OrchState(run'[s], status'[s]))
                     >= Rank(OrchState(run[s], status[s]))
                /\ (status[s][FETCHER] \in {"done", "failed"}
                     => status'[s][FETCHER] = status[s][FETCHER])]_vars

C9_Witness ==
    \E s \in Sessions :
        /\ run[s] = "aborted"
        /\ status[s][FETCHER] = "failed"
        /\ starts[s][FETCHER] = 1
        /\ starts[s][PRESENTER] = 0

\* C10: whatever is stored under fetched_profile, and whatever the presenter
\* is given under it, has the declared shape: the ten fields are present,
\* the eight scalar ones strings, skills and projects sequences of strings.
C10_OnlyValidatedVisible ==
    \A s \in Sessions :
        /\ OUTPUT_KEY \in DOMAIN state[s] => WellShaped(state[s][OUTPUT_KEY])
        /\ OUTPUT_KEY \in DOMAIN view[s] => WellShaped(view[s][OUTPUT_KEY])

C10_Witness ==
    \E s, t \in Sessions :
        /\ gen[s][1] = "text"
        /\ ~WellShaped(gen[s][2])
        /\ OUTPUT_KEY \in DOMAIN state[s]
        /\ status[t][PRESENTER] = "running"
        /\ OUTPUT_KEY \in DOMAIN view[t]

====
